---- MODULE Spec2Model ----
(***************************************************************************)
(* Model of dashboard/dashboard/common/cloud_metric.py: the job-metric     *)
(* publish helpers, the publish primitive _PublishTSCloudMetric, the       *)
(* scoped timer APIMetricLogger and the APIMetric decorator.               *)
(*                                                                         *)
(* Each caller (a thread of the application) runs one operation at a time. *)
(* The environment is the wall clock (time.time), the monitoring client    *)
(* (construction and create_time_series may raise), uuid.uuid4 and the     *)
(* wrapped callable.  Times are counted in clock ticks.                    *)
(***************************************************************************)
EXTENDS Integers, Sequences, FiniteSets, TLC

\* ---- bounds of the model -------------------------------------------------
MaxClock == 2
TicksPerSecond == 2
MaxValue == 2

\* ---- module constants (cloud_metric.py:13-25) ----------------------------
METRIC_TYPE_PREFIX == "custom.googleapis.com/"
RESOURCE_TYPE == "generic_task"
LOCATION == "us-central1"
NAMESPACE == "Prod"
DEFAULT_TASK_ID == "task_id"
JOB_ID == "job_id"
JOB_TYPE == "job_type"
JOB_STATUS == "job_status"
API_METRIC_TYPE == "api/metrics"
API_NAME == "api_name"
REQUEST_STATUS == "request_status"
UUID == "uuid"

None == "None"
ClientError == "ClientConstructionError"
BlockError == "BlockError"

\* ---- callers and inputs --------------------------------------------------
Callers == {"c1", "c2"}
MainCaller == "c1"

JobArgs ==
  { [project_id |-> "proj1", job_id |-> "job42", job_type |-> "perf",
     job_status |-> "FROZEN"],
    [project_id |-> "proj2", job_id |-> "job7", job_type |-> "try",
     job_status |-> "QUEUED"] }

Values == 1..MaxValue

\* keyword arguments a caller may leave out are absent from the record
Optional(key, S) == {<<>>} \cup { key :> v : v \in S }

FullInputs ==
  [ jobs |-> JobArgs, values |-> Values,
    apis |-> {"jobs", "new"}, services |-> {"pinpoint"},
    forms |-> {"APIMetric", "with"},
    sendExc |-> {"GoogleAPICallError", "RetryError"},
    uuids |-> {"u1", "u2"} ]

\* under concurrency each caller brings one input of its own
SlimInputs(c) ==
  IF c = MainCaller
  THEN [ jobs |-> { j \in JobArgs : j.project_id = "proj1" },
         values |-> {1},
         apis |-> {"jobs"}, services |-> {"pinpoint"},
         forms |-> {"APIMetric"},
         sendExc |-> {"GoogleAPICallError"},
         uuids |-> {"u1"} ]
  ELSE [ jobs |-> { j \in JobArgs : j.project_id = "proj2" },
         values |-> {MaxValue},
         apis |-> {"new"}, services |-> {"chromeperf"},
         forms |-> {"APIMetric"},
         sendExc |-> {"GoogleAPICallError"},
         uuids |-> {"u2"} ]

VARIABLES clock, pc, call, logger, pending, invoked, clients, backend, log,
          outcome

vars == <<clock, pc, call, logger, pending, invoked, clients, backend, log,
          outcome>>

NoCall == [op |-> "none"]
NoLogger == <<>>
NoOutcome == [kind |-> "none", value |-> None]

\* ---- time.time() and its split into seconds and nanos (lines 106-108) ----
EndTime(now) ==
  LET seconds == now \div TicksPerSecond
  IN  [seconds |-> seconds,
       nanos |-> ((now - seconds * TicksPerSecond) * 1000000000)
                   \div TicksPerSecond]

\* app_identity.get_application_id()
GetApplicationId == "chromeperf"

\* ---- _PublishTSCloudMetric (lines 71-127) --------------------------------
\* clientExc: what MetricServiceClient() raises (None: it returns a client)
\* sendExc:   what create_time_series raises (None: it returns)
Series(project_id, service_name, metric_type, label_dict, metric_value, now) ==
  [ metric |-> [type |-> METRIC_TYPE_PREFIX \o metric_type,
                labels |-> [key \in DOMAIN label_dict |-> label_dict[key]]],
    resource |-> [type |-> RESOURCE_TYPE,
                  labels |-> [project_id |-> project_id,
                              location |-> LOCATION,
                              namespace |-> NAMESPACE,
                              job |-> service_name,
                              task_id |-> DEFAULT_TASK_ID]],
    points |-> << [interval |-> [end_time |-> EndTime(now)],
                   value |-> [double_value |-> metric_value]] >> ]

\* variant: the try block is missing, the error of the send is raised
PublishTSCloudMetric_NoCatch(project_id, service_name, metric_type, label_dict, metric_value, now, clientExc, sendExc) ==
  IF clientExc # None
  THEN [raised |-> clientExc, requests |-> <<>>, logged |-> <<>>]
  ELSE [raised |-> sendExc,
        requests |-> << [name |-> "projects/" \o project_id,
                         time_series |-> << Series(project_id, service_name,
                                                   metric_type, label_dict,
                                                   metric_value, now) >>,
                         response |-> sendExc] >>,
        logged |-> <<>>]

\* variant: the client is constructed inside the try block
PublishTSCloudMetric_CatchesClient(project_id, service_name, metric_type, label_dict, metric_value, now, clientExc, sendExc) ==
  IF clientExc # None
  THEN [raised |-> None, requests |-> <<>>,
        logged |-> << [level |-> "warning", error |-> clientExc] >>]
  ELSE [raised |-> None,
        requests |-> << [name |-> "projects/" \o project_id,
                         time_series |-> << Series(project_id, service_name,
                                                   metric_type, label_dict,
                                                   metric_value, now) >>,
                         response |-> sendExc] >>,
        logged |-> IF sendExc # None
                   THEN << [level |-> "warning", error |-> sendExc] >>
                   ELSE <<>>]

\* variant: a send that raised is tried once more
PublishTSCloudMetric_Retries(project_id, service_name, metric_type, label_dict, metric_value, now, clientExc, sendExc) ==
  LET request == [name |-> "projects/" \o project_id,
                  time_series |-> << Series(project_id, service_name,
                                            metric_type, label_dict,
                                            metric_value, now) >>,
                  response |-> sendExc]
  IN  IF clientExc # None
      THEN [raised |-> clientExc, requests |-> <<>>, logged |-> <<>>]
      ELSE IF sendExc # None
      THEN [raised |-> None, requests |-> <<request, request>>,
            logged |-> << [level |-> "warning", error |-> sendExc] >>]
      ELSE [raised |-> None, requests |-> <<request>>, logged |-> <<>>]

PublishTSCloudMetric(project_id, service_name, metric_type, label_dict, metric_value, now, clientExc, sendExc) ==
  IF clientExc # None
  THEN [raised |-> clientExc, requests |-> <<>>, logged |-> <<>>]
  ELSE [raised |-> None,
        requests |-> << [name |-> "projects/" \o project_id,
                         time_series |-> << Series(project_id, service_name,
                                                   metric_type, label_dict,
                                                   metric_value, now) >>,
                         response |-> sendExc] >>,
        logged |-> IF sendExc # None
                   THEN << [level |-> "warning", error |-> sendExc] >>
                   ELSE <<>>]

\* a keyword argument with a default value
Default(args, key, default) ==
  IF key \in DOMAIN args THEN args[key] ELSE default

\* variant: two label values change places
JobLabelDict_Swapped(args) ==
  (JOB_ID :> args.job_id) @@ (JOB_TYPE :> args.job_status)
    @@ (JOB_STATUS :> args.job_type)

JobLabelDict(args) ==
  (JOB_ID :> args.job_id) @@ (JOB_TYPE :> args.job_type)
    @@ (JOB_STATUS :> args.job_status)

\* metric type and value of the single point of a job-metric operation
JobMetricType(op) ==
  CASE op = "PublishFrozenJobMetric" -> "pinpoint/job/frozen_job"
    [] op = "PublishPinpointJobStatusMetric" -> "pinpoint/job/status_change"
    [] op = "PublishPinpointJobRunTimeMetric" -> "pinpoint/job/run_time"

\* the k-th publish of PublishPinpointJobDetailMetrics (lines 59-68)
DetailMetricType(k) ==
  CASE k = 1 -> "pinpoint/job/change_count_per_job"
    [] k = 2 -> "pinpoint/job/attempt_count_per_job"
    [] k = 3 -> "pinpoint/job/difference_count_per_job"

\* variant: the first two counts change places
DetailValue_Swapped(args, k) ==
  CASE k = 1 -> args.attempt_count
    [] k = 2 -> args.change_count
    [] k = 3 -> Default(args, "difference_count", 1)

DetailValue(args, k) ==
  CASE k = 1 -> args.change_count
    [] k = 2 -> args.attempt_count
    [] k = 3 -> Default(args, "difference_count", 1)

\* ---- environment choices of one publish ----------------------------------
ClientOutcomes == {None, ClientError}
SendOutcomes(In) == {None} \cup In.sendExc

Finish(c, kind, value) ==
  /\ pc' = [pc EXCEPT ![c] = "done"]
  /\ outcome' = [outcome EXCEPT ![c] = [kind |-> kind, value |-> value]]

\* clients: what each MetricServiceClient() of the call did; backend: the
\* create_time_series requests of the call and what the backend answered
Record(c, res, clientExc) ==
  /\ clients' = [clients EXCEPT ![c] = Append(@, clientExc)]
  /\ backend' = [backend EXCEPT ![c] = @ \o res.requests]
  /\ log' = [log EXCEPT ![c] = @ \o res.logged]

\* ---- the three single-point job metrics (lines 28-49) --------------------
\* label_dict is built and _PublishTSCloudMetric is called once
PublishJobMetric(c, In, op, args) ==
  /\ \E clientExc \in ClientOutcomes, sendExc \in SendOutcomes(In) :
       LET res == PublishTSCloudMetric(args.project_id, "pinpoint",
                     JobMetricType(op), JobLabelDict(args),
                     Default(args, "metric_value", 1), clock,
                     clientExc, sendExc)
       IN  /\ Record(c, res, clientExc)
           /\ IF res.raised # None
              THEN Finish(c, "raised", res.raised)
              ELSE Finish(c, "returned", None)
  /\ call' = [call EXCEPT ![c] = [op |-> op, args |-> args]]
  /\ UNCHANGED <<clock, logger, pending, invoked>>

PublishFrozenJobMetric(c, In) ==
  /\ pc[c] = "idle"
  /\ \E j \in In.jobs, v \in Optional("metric_value", In.values) :
       PublishJobMetric(c, In, "PublishFrozenJobMetric", j @@ v)

PublishPinpointJobStatusMetric(c, In) ==
  /\ pc[c] = "idle"
  /\ \E j \in In.jobs, v \in Optional("metric_value", In.values) :
       PublishJobMetric(c, In, "PublishPinpointJobStatusMetric", j @@ v)

PublishPinpointJobRunTimeMetric(c, In) ==
  /\ pc[c] = "idle"
  /\ \E j \in In.jobs, v \in In.values :
       PublishJobMetric(c, In, "PublishPinpointJobRunTimeMetric",
                        j @@ ("metric_value" :> v))

\* ---- PublishPinpointJobDetailMetrics (lines 52-68) -----------------------
\* the call binds its arguments; each of the three publishes is one step
PublishPinpointJobDetailMetrics(c, In) ==
  /\ pc[c] = "idle"
  /\ \E j \in In.jobs, cc \in In.values, ac \in In.values,
        dc \in Optional("difference_count", In.values) :
       call' = [call EXCEPT ![c] =
                  [op |-> "PublishPinpointJobDetailMetrics",
                   args |-> j @@ ("change_count" :> cc)
                              @@ ("attempt_count" :> ac) @@ dc]]
  /\ pc' = [pc EXCEPT ![c] = "detail"]
  /\ UNCHANGED <<clock, logger, pending, invoked, clients, backend, log,
                 outcome>>

DetailPublish(c, In) ==
  /\ pc[c] = "detail"
  /\ LET args == call[c].args
         k == Len(clients[c]) + 1
     IN  \E clientExc \in ClientOutcomes, sendExc \in SendOutcomes(In) :
           LET res == PublishTSCloudMetric(args.project_id, "pinpoint",
                         DetailMetricType(k), JobLabelDict(args),
                         DetailValue(args, k), clock, clientExc, sendExc)
           IN  /\ Record(c, res, clientExc)
               /\ IF res.raised # None
                  THEN Finish(c, "raised", res.raised)
                  ELSE IF k = 3
                       THEN Finish(c, "returned", None)
                       ELSE UNCHANGED <<pc, outcome>>
  /\ UNCHANGED <<clock, call, logger, pending, invoked>>

\* ---- APIMetricLogger (lines 130-175) -------------------------------------
APIMetricLoggerInit(service_name, api_name) ==
  [service_name |-> service_name, api_name |-> api_name,
   start |-> <<>>, seconds |-> 0]

\* variant: _start is one attribute shared by all instances
SetStart_Shared(loggers, c, now) ==
  [x \in DOMAIN loggers |->
     IF DOMAIN loggers[x] = {} THEN loggers[x]
     ELSE [loggers[x] EXCEPT !.start = <<now>>]]

\* self._start = self._Now(): the attribute of this caller's own instance
SetStart(loggers, c, now) ==
  [loggers EXCEPT ![c].start = <<now>>]

ApiLabelDict(api_name, request_status, uuid) ==
  (API_NAME :> api_name) @@ (REQUEST_STATUS :> request_status)
    @@ (UUID :> uuid)

\* __enter__ (lines 144-155), on the loggers after self._start was set
LoggerEnter(self, now, uuid, clientExc, sendExc) ==
  PublishTSCloudMetric(GetApplicationId, self.service_name, API_METRIC_TYPE,
                       ApiLabelDict(self.api_name, "started", uuid),
                       1, now, clientExc, sendExc)

\* variant: __exit__ returns True on both paths
ExitReturns_AlwaysTrue(exception_type) == TRUE

\* the value __exit__ returns to the with statement (lines 167 and 175)
ExitReturns(exception_type) ==
  IF exception_type = None THEN TRUE ELSE FALSE

\* variant: the closing point is "completed" on both paths
ExitStatus_AlwaysCompleted(exception_type) == "completed"

ExitStatus(exception_type) ==
  IF exception_type = None THEN "completed" ELSE "failed"

\* __exit__ (lines 157-175): the new fields of self, the publish result and
\* the returned value
LoggerExit(self, exception_type, now, uuid, clientExc, sendExc) ==
  LET seconds == IF exception_type = None
                 THEN now - self.start[1]
                 ELSE self.seconds
      info == IF exception_type = None
              THEN << [level |-> "info", service_name |-> self.service_name,
                       api_name |-> self.api_name, seconds |-> seconds] >>
              ELSE <<>>
      res == PublishTSCloudMetric(GetApplicationId, self.service_name,
                API_METRIC_TYPE,
                ApiLabelDict(self.api_name, ExitStatus(exception_type), uuid),
                IF exception_type = None THEN seconds ELSE 1,
                now, clientExc, sendExc)
  IN  [self |-> [self EXCEPT !.seconds = seconds],
       raised |-> res.raised,
       requests |-> res.requests,
       logged |-> info \o res.logged,
       returns |-> ExitReturns(exception_type)]

\* ---- the wrapped callable -------------------------------------------------
Callables == {"returns", "raises"}
\* the callable returns a value that depends on its argument
WrappedResult(args) == "result of " \o ToString(args)

\* variant: the Wrapper loses the result of the callable
WithOutcome_DropsResult(form, exception_type, exitRaised, exitReturns, result) ==
  IF exitRaised # None THEN [kind |-> "raised", value |-> exitRaised]
  ELSE IF exception_type # None /\ ~exitReturns
       THEN [kind |-> "raised", value |-> exception_type]
  ELSE [kind |-> "returned", value |-> None]

\* what the with statement (PEP 343) and the Wrapper around it hand to the
\* caller once __exit__ is over (lines 182-184)
WithOutcome(form, exception_type, exitRaised, exitReturns, result) ==
  IF exitRaised # None THEN [kind |-> "raised", value |-> exitRaised]
  ELSE IF exception_type # None /\ ~exitReturns
       THEN [kind |-> "raised", value |-> exception_type]
  ELSE IF exception_type = None /\ form = "APIMetric"
       THEN [kind |-> "returned", value |-> result]
  ELSE [kind |-> "returned", value |-> None]

\* APIMetric(service_name, api_name)(wrapped)(*a) or a with-block:
\* APIMetricLogger(service_name, api_name) is constructed (lines 132-139)
CallTimed(c, In) ==
  /\ pc[c] = "idle"
  /\ \E form \in In.forms, service \in In.services, api \in In.apis,
        wrapped \in Callables, a \in In.values :
       /\ call' = [call EXCEPT ![c] =
                     [op |-> form,
                      args |-> [service_name |-> service, api_name |-> api,
                                wrapped |-> wrapped, a |-> a]]]
       /\ logger' = [logger EXCEPT ![c] = APIMetricLoggerInit(service, api)]
  /\ pc' = [pc EXCEPT ![c] = "enter"]
  /\ UNCHANGED <<clock, pending, invoked, clients, backend, log, outcome>>

Enter(c, In) ==
  /\ pc[c] = "enter"
  /\ \E uuid \in In.uuids, clientExc \in ClientOutcomes,
        sendExc \in SendOutcomes(In) :
       LET loggers == SetStart(logger, c, clock)
           res == LoggerEnter(loggers[c], clock, uuid, clientExc, sendExc)
       IN  /\ logger' = loggers
           /\ Record(c, res, clientExc)
           /\ IF res.raised # None
              THEN Finish(c, "raised", res.raised)
              ELSE /\ pc' = [pc EXCEPT ![c] = "block"]
                   /\ UNCHANGED outcome
  /\ UNCHANGED <<clock, call, pending, invoked>>

\* the body of the with statement: wrapped(*a, **kw)
RunBlock(c) ==
  /\ pc[c] = "block"
  /\ invoked' = [invoked EXCEPT ![c] =
                   Append(@, [a |-> call[c].args.a,
                              after |-> Len(backend[c])])]
  /\ pending' = [pending EXCEPT ![c] =
                   IF call[c].args.wrapped = "raises"
                   THEN [exception_type |-> BlockError, result |-> None]
                   ELSE [exception_type |-> None,
                         result |-> WrappedResult(call[c].args.a)]]
  /\ pc' = [pc EXCEPT ![c] = "exit"]
  /\ UNCHANGED <<clock, call, logger, clients, backend, log, outcome>>

Exit(c, In) ==
  /\ pc[c] = "exit"
  /\ \E uuid \in In.uuids, clientExc \in ClientOutcomes,
        sendExc \in SendOutcomes(In) :
       LET res == LoggerExit(logger[c], pending[c].exception_type, clock,
                             uuid, clientExc, sendExc)
           out == WithOutcome(call[c].op, pending[c].exception_type,
                              res.raised, res.returns, pending[c].result)
       IN  /\ logger' = [logger EXCEPT ![c] = res.self]
           /\ Record(c, res, clientExc)
           /\ Finish(c, out.kind, out.value)
  /\ UNCHANGED <<clock, call, pending, invoked>>

\* ---- the caller takes the outcome; its next call starts afresh -----------
NoPending == [exception_type |-> None, result |-> None]

Return(c) ==
  /\ pc[c] = "done"
  /\ pc' = [pc EXCEPT ![c] = "idle"]
  /\ call' = [call EXCEPT ![c] = NoCall]
  /\ logger' = [logger EXCEPT ![c] = NoLogger]
  /\ pending' = [pending EXCEPT ![c] = NoPending]
  /\ invoked' = [invoked EXCEPT ![c] = <<>>]
  /\ clients' = [clients EXCEPT ![c] = <<>>]
  /\ backend' = [backend EXCEPT ![c] = <<>>]
  /\ log' = [log EXCEPT ![c] = <<>>]
  /\ outcome' = [outcome EXCEPT ![c] = NoOutcome]
  /\ UNCHANGED clock

\* ---- the wall clock read by time.time() ----------------------------------
ClockAdvance ==
  /\ clock < MaxClock
  /\ clock' = clock + 1
  /\ UNCHANGED <<pc, call, logger, pending, invoked, clients, backend, log,
                 outcome>>

\* the system clock is set back (time.time() is not monotonic)
ClockSetBack ==
  /\ clock > 0
  /\ \E t \in 0..(clock - 1) : clock' = t
  /\ UNCHANGED <<pc, call, logger, pending, invoked, clients, backend, log,
                 outcome>>

Init ==
  /\ clock \in 0..MaxClock
  /\ pc = [c \in Callers |-> "idle"]
  /\ call = [c \in Callers |-> NoCall]
  /\ logger = [c \in Callers |-> NoLogger]
  /\ pending = [c \in Callers |-> NoPending]
  /\ invoked = [c \in Callers |-> <<>>]
  /\ clients = [c \in Callers |-> <<>>]
  /\ backend = [c \in Callers |-> <<>>]
  /\ log = [c \in Callers |-> <<>>]
  /\ outcome = [c \in Callers |-> NoOutcome]

Step(c, In) ==
  \/ PublishFrozenJobMetric(c, In)
  \/ PublishPinpointJobStatusMetric(c, In)
  \/ PublishPinpointJobRunTimeMetric(c, In)
  \/ PublishPinpointJobDetailMetrics(c, In)
  \/ DetailPublish(c, In)
  \/ CallTimed(c, In)
  \/ Enter(c, In)
  \/ RunBlock(c)
  \/ Exit(c, In)
  \/ Return(c)

\* one caller, the full range of inputs
Next ==
  \/ Step(MainCaller, FullInputs)
  \/ ClockAdvance
  \/ ClockSetBack

Spec == Init /\ [][Next]_vars

\* concurrent callers, one input each
NextConc ==
  \/ \E c \in Callers :
       \/ PublishFrozenJobMetric(c, SlimInputs(c))
       \/ PublishPinpointJobRunTimeMetric(c, SlimInputs(c))
       \/ CallTimed(c, SlimInputs(c))
       \/ Enter(c, SlimInputs(c))
       \/ RunBlock(c)
       \/ Exit(c, SlimInputs(c))
       \/ Return(c)
  \/ ClockAdvance
  \/ ClockSetBack

SpecConc == Init /\ [][NextConc]_vars

\* ==== properties ===========================================================
Done(c) == pc[c] = "done"
Timed(c) == call[c].op \in {"APIMetric", "with"}
JobOp(c) == call[c].op \in {"PublishFrozenJobMetric",
                            "PublishPinpointJobStatusMetric",
                            "PublishPinpointJobRunTimeMetric"}
Detail(c) == call[c].op = "PublishPinpointJobDetailMetrics"

SeriesOf(req) == req.time_series[1]
ValueOf(req) == SeriesOf(req).points[1].value.double_value
StatusOf(req) == SeriesOf(req).metric.labels["request_status"]
Statuses(c) == [i \in 1..Len(backend[c]) |-> StatusOf(backend[c][i])]

\* the clock reading carried by a request's end_time, in ticks
ReadAt(req) ==
  LET t == SeriesOf(req).points[1].interval.end_time
  IN  t.seconds * TicksPerSecond
        + (CHOOSE r \in 0..(TicksPerSecond - 1) :
             (r * 1000000000) \div TicksPerSecond = t.nanos)

NoClientFailed(c) == \A i \in DOMAIN clients[c] : clients[c][i] = None
BlockRaised(c) == pending[c].exception_type # None

IsWarning(e) == e.level = "warning"
Warnings(c) ==
  LET w == SelectSeq(log[c], IsWarning)
  IN  [i \in 1..Len(w) |-> w[i].error]
HasResponseError(req) == req.response # None
FailedSends(c) ==
  LET f == SelectSeq(backend[c], HasResponseError)
  IN  [i \in 1..Len(f) |-> f[i].response]

\* the publishes an operation makes when none of them raises
PublishesOf(op) ==
  CASE op = "PublishPinpointJobDetailMetrics" -> 3
    [] op \in {"APIMetric", "with"} -> 2
    [] OTHER -> 1

JobLabelsOk(c, req) ==
  LET labels == SeriesOf(req).metric.labels
  IN  /\ DOMAIN labels = {"job_id", "job_type", "job_status"}
      /\ labels["job_id"] = call[c].args.job_id
      /\ labels["job_type"] = call[c].args.job_type
      /\ labels["job_status"] = call[c].args.job_status
      /\ SeriesOf(req).resource.labels.project_id = call[c].args.project_id

\* ---- C1 -------------------------------------------------------------------
\* C1 as stated: when the timed block raises, the block's exception does not
\* reach the caller of the scoped timer.
C1_Suppressed ==
  \A c \in Callers :
    (Done(c) /\ Timed(c) /\ BlockRaised(c))
      => ~(outcome[c].kind = "raised"
           /\ outcome[c].value = pending[c].exception_type)

\* C1 amended: when the timed block raises, the "failed" point is emitted and
\* then the block's exception propagates to the caller; it is never
\* suppressed.  When the client for the "failed" point cannot be constructed,
\* that error reaches the caller in its place.
C1_Propagates ==
  \A c \in Callers :
    (Done(c) /\ Timed(c) /\ BlockRaised(c))
      => /\ outcome[c].kind = "raised"
         /\ IF clients[c][2] = None
            THEN /\ outcome[c].value = pending[c].exception_type
                 /\ Statuses(c) = <<"started", "failed">>
            ELSE outcome[c].value = clients[c][2]

C1_Witness ==
  \E c \in Callers :
    /\ Done(c) /\ Timed(c) /\ BlockRaised(c)
    /\ Statuses(c) = <<"started", "failed">>
    /\ outcome[c] = [kind |-> "raised", value |-> BlockError]

\* ---- C2 -------------------------------------------------------------------
\* C2: a run of the scoped timer whose client constructions all succeed
\* emits exactly two points on api/metrics, "started" and then "completed"
\* (normal run) or "failed" (exceptional run); never more than two, never
\* both "completed" and "failed", and nothing before "started", which is
\* emitted before the block runs.
C2_TwoPoints ==
  \A c \in Callers :
    Timed(c) =>
      /\ \A i \in 1..Len(backend[c]) :
           SeriesOf(backend[c][i]).metric.type
             = "custom.googleapis.com/api/metrics"
      /\ Statuses(c) \in {<<>>, <<"started">>, <<"started", "completed">>,
                          <<"started", "failed">>}
      /\ pc[c] = "block" => Statuses(c) = <<"started">>
      /\ (Done(c) /\ NoClientFailed(c))
           => Statuses(c) = <<"started", IF BlockRaised(c) THEN "failed"
                                          ELSE "completed">>

C2_Witness ==
  \E c \in Callers :
    /\ Done(c) /\ Timed(c) /\ NoClientFailed(c) /\ BlockRaised(c)
    /\ Statuses(c) = <<"started", "failed">>

\* ---- C3 -------------------------------------------------------------------
\* C3: an exception raised by create_time_series never surfaces to the
\* caller; one warning is logged for each such exception, and the operation
\* goes on to make all of its publishes.
C3_SendErrorsSwallowed ==
  \A c \in Callers :
    /\ Warnings(c) = FailedSends(c)
    /\ outcome[c].kind = "raised"
         => outcome[c].value \in {ClientError, BlockError}
    /\ (Done(c) /\ NoClientFailed(c))
         => Len(backend[c]) = PublishesOf(call[c].op)

C3_Witness ==
  \E c \in Callers :
    /\ Done(c) /\ Detail(c)
    /\ Len(backend[c]) = 3
    /\ backend[c][1].response # None
    /\ Len(Warnings(c)) = 1
    /\ outcome[c].kind = "returned"

\* ---- C4 -------------------------------------------------------------------
\* C4: a failure to construct the client is not caught: no send is made for
\* that publish, the operation stops there and the error reaches the
\* caller; a failure in __enter__ keeps the timed block from running.
C4_ClientErrorPropagates ==
  \A c \in Callers :
    /\ Len(backend[c])
         = Cardinality({i \in DOMAIN clients[c] : clients[c][i] = None})
    /\ \A i \in DOMAIN clients[c] :
         clients[c][i] # None
           => /\ i = Len(clients[c])
              /\ Done(c)
              /\ outcome[c] = [kind |-> "raised", value |-> clients[c][i]]
    /\ (Timed(c) /\ clients[c] # <<>> /\ clients[c][1] # None)
         => invoked[c] = <<>>

C4_Witness ==
  \E c \in Callers :
    /\ Done(c) /\ Detail(c)
    /\ clients[c] = <<None, ClientError>>
    /\ Len(backend[c]) = 1
    /\ outcome[c] = [kind |-> "raised", value |-> ClientError]

\* ---- C5 -------------------------------------------------------------------
DetailPointOk(c, i, suffix, value) ==
  Len(backend[c]) >= i
    => /\ SeriesOf(backend[c][i]).metric.type
            = "custom.googleapis.com/pinpoint/job/" \o suffix
       /\ ValueOf(backend[c][i]) = value
       /\ JobLabelsOk(c, backend[c][i])

DetailPointsOk(c) ==
  /\ Len(backend[c]) <= 3
  /\ DetailPointOk(c, 1, "change_count_per_job", call[c].args.change_count)
  /\ DetailPointOk(c, 2, "attempt_count_per_job", call[c].args.attempt_count)
  /\ DetailPointOk(c, 3, "difference_count_per_job",
                   IF "difference_count" \in DOMAIN call[c].args
                   THEN call[c].args.difference_count ELSE 1)

\* C5 as stated: every call of PublishPinpointJobDetailMetrics emits exactly
\* three points, in the order change, attempt, difference count, each with
\* its argument as value and the caller's labels.
C5_AlwaysThree ==
  \A c \in Callers :
    (Done(c) /\ Detail(c)) => (Len(backend[c]) = 3 /\ DetailPointsOk(c))

\* C5 amended: the points are emitted in that order with those types, values
\* and labels; all three are emitted when no client construction fails, and
\* otherwise only the ones before the failure.
C5_DetailPoints ==
  \A c \in Callers :
    Detail(c) =>
      /\ DetailPointsOk(c)
      /\ Done(c) => Len(backend[c]) = (IF NoClientFailed(c) THEN 3
                                       ELSE Len(clients[c]) - 1)

C5_Witness ==
  \E c \in Callers :
    /\ Done(c) /\ Detail(c) /\ Len(backend[c]) = 3
    /\ call[c].args.change_count # call[c].args.attempt_count
    /\ "difference_count" \notin DOMAIN call[c].args
    /\ call[c].args.attempt_count # 1

\* ---- C6 -------------------------------------------------------------------
\* C6: no retries: a call of the publish primitive makes at most one send,
\* so a single-point operation makes at most one, the detail operation at
\* most three and a run of the scoped timer at most two.
C6_NoRetries ==
  \A c \in Callers :
    /\ Len(backend[c]) <= Len(clients[c])
    /\ call[c].op # "none" => Len(backend[c]) <= PublishesOf(call[c].op)

C6_Witness ==
  \E c \in Callers :
    /\ Done(c) /\ call[c].op = "PublishFrozenJobMetric"
    /\ Len(backend[c]) = 1
    /\ backend[c][1].response # None

\* ---- C7 -------------------------------------------------------------------
InvokedOk(c) ==
  /\ Len(invoked[c]) = 1
  /\ invoked[c][1].a = call[c].args.a
  /\ invoked[c][1].after = 1
  /\ Statuses(c)[1] = "started"

\* C7 as stated: every call of the wrapper invokes the wrapped callable
\* exactly once, between the "started" and the closing point, and returns
\* its result whenever the callable raises nothing.
C7_AlwaysInvoked ==
  \A c \in Callers :
    (Done(c) /\ call[c].op = "APIMetric")
      => /\ InvokedOk(c)
         /\ ~BlockRaised(c)
              => outcome[c] = [kind |-> "returned",
                               value |-> "result of " \o ToString(call[c].args.a)]

\* C7 amended: the wrapped callable is invoked at most once, and exactly
\* once, with the caller's arguments, after "started" and before the
\* closing point, when the client construction of __enter__ succeeds; the
\* wrapper returns the callable's result when the callable raises nothing
\* and the client construction of __exit__ succeeds.
C7_WrappedOnce ==
  \A c \in Callers :
    call[c].op = "APIMetric" =>
      /\ Len(invoked[c]) <= 1
      /\ invoked[c] # <<>> => InvokedOk(c)
      /\ Len(backend[c]) = 2 => invoked[c] # <<>>
      /\ (Done(c) /\ clients[c][1] = None) => InvokedOk(c)
      /\ (Done(c) /\ NoClientFailed(c) /\ ~BlockRaised(c))
           => outcome[c] = [kind |-> "returned",
                            value |-> "result of " \o ToString(call[c].args.a)]

C7_Witness ==
  \E c \in Callers :
    /\ Done(c) /\ call[c].op = "APIMetric"
    /\ Len(invoked[c]) = 1
    /\ Statuses(c) = <<"started", "completed">>
    /\ outcome[c] = [kind |-> "returned",
                     value |-> "result of " \o ToString(call[c].args.a)]

\* ---- C8 -------------------------------------------------------------------
JobSuffix(op) ==
  CASE op = "PublishFrozenJobMetric" -> "pinpoint/job/frozen_job"
    [] op = "PublishPinpointJobStatusMetric" -> "pinpoint/job/status_change"
    [] op = "PublishPinpointJobRunTimeMetric" -> "pinpoint/job/run_time"

JobPointsOk(c) ==
  \A i \in 1..Len(backend[c]) :
    /\ SeriesOf(backend[c][i]).metric.type
         = "custom.googleapis.com/" \o JobSuffix(call[c].op)
    /\ JobLabelsOk(c, backend[c][i])
    /\ ValueOf(backend[c][i])
         = (IF "metric_value" \in DOMAIN call[c].args
            THEN call[c].args.metric_value ELSE 1)

\* C8 as stated: every job-metric call emits exactly one point, with the
\* documented metric type, the caller's three labels and project, and the
\* supplied value (1 when omitted).
C8_AlwaysOne ==
  \A c \in Callers :
    (Done(c) /\ JobOp(c)) => (Len(backend[c]) = 1 /\ JobPointsOk(c))

\* C8 amended: a job-metric call whose client construction succeeds emits
\* exactly that one point; when the construction fails it emits none.
C8_JobPoint ==
  \A c \in Callers :
    (Done(c) /\ JobOp(c))
      => /\ Len(backend[c]) = (IF NoClientFailed(c) THEN 1 ELSE 0)
         /\ JobPointsOk(c)

C8_Witness ==
  \E c \in Callers :
    /\ Done(c) /\ call[c].op = "PublishFrozenJobMetric"
    /\ call[c].args = [project_id |-> "proj1", job_id |-> "job42",
                       job_type |-> "perf", job_status |-> "FROZEN"]
    /\ Len(backend[c]) = 1
    /\ ValueOf(backend[c][1]) = 1

\* ---- C9 -------------------------------------------------------------------
Completed(c) ==
  Timed(c) /\ Len(backend[c]) = 2 /\ StatusOf(backend[c][2]) = "completed"

\* C9: the value of a "completed" point is non-negative and is the clock
\* reading at exit minus the clock reading at entry of the same run.
C9_ElapsedNonNegative ==
  \A c \in Callers :
    Completed(c)
      => /\ ValueOf(backend[c][2]) >= 0
         /\ ValueOf(backend[c][2])
              = ReadAt(backend[c][2]) - ReadAt(backend[c][1])

\* ---- C10 ------------------------------------------------------------------
TimedPointsOwn(c) ==
  \A i \in 1..Len(backend[c]) :
    LET series == SeriesOf(backend[c][i])
    IN  /\ DOMAIN series.metric.labels
             = {"api_name", "request_status", "uuid"}
        /\ series.metric.labels["api_name"] = call[c].args.api_name
        /\ series.resource.labels.job = call[c].args.service_name
        /\ ValueOf(backend[c][i])
             = (IF StatusOf(backend[c][i]) = "completed"
                THEN ReadAt(backend[c][2]) - ReadAt(backend[c][1])
                ELSE 1)

\* C10: under every interleaving of concurrent callers, the points of a call
\* carry that call's own labels and values, and the value of a "completed"
\* point is computed from the entry time of its own run.
C10_Independent ==
  \A c \in Callers :
    /\ Timed(c) => TimedPointsOwn(c)
    /\ JobOp(c) => JobPointsOk(c)

C10_Witness ==
  \E c \in Callers, d \in Callers :
    /\ c # d
    /\ Completed(c)
    /\ pc[d] \in {"block", "exit"}
    /\ logger[d].start # logger[c].start
    /\ ReadAt(backend[d][1]) > ReadAt(backend[c][1])
    /\ ReadAt(backend[d][1]) < ReadAt(backend[c][2])
====
